---- MODULE Spec2Model ----
(***************************************************************************)
(* Model of the salsa `db_view` attribute macro                            *)
(* (components/salsa-macros/src/db_view.rs).                               *)
(*                                                                         *)
(* Identifiers are sequences of one-character strings.  A token stream     *)
(* handed to the macro is a record describing the item it spells.  The     *)
(* expansion is stepped statement by statement.  Spec is one invocation;   *)
(* SpecRerun interleaves an invocation with a re-run of it on the same     *)
(* (args, input) pair.                                                     *)
(***************************************************************************)
EXTENDS Naturals, Sequences, FiniteSets

\* ------------------------------------------------------------------ bounds
MaxLen == 3        \* longest user identifier
MaxSupers == 2     \* longest pre-existing supertrait list
MaxArgs == 1       \* longest attribute argument token list

Runs == {1, 2}

\* ------------------------------------------------------------- characters
UpperChars == {"U"}
LowerChars == {"u"}
DigitChars == {"1"}
Chars == UpperChars \cup LowerChars \cup DigitChars \cup {"_"}

is_uppercase(c) == c \in UpperChars
is_lowercase(c) == c \in LowerChars
is_alphanumeric(c) == c \in UpperChars \cup LowerChars \cup DigitChars
to_lowercase(c) == IF c = "U" THEN "u" ELSE c

\* The sequences over S of length at most n.
SeqsUpTo(S, n) ==
    LET upto[k \in 0..n] ==
            IF k = 0 THEN {<<>>}
            ELSE upto[k - 1] \cup
                 {Append(s, c) : s \in {x \in upto[k - 1] : Len(x) = k - 1}, c \in S}
    IN  upto[n]

\* A Rust identifier: starts with a letter or `_`, and is not `_` alone.
is_ident(s) == /\ Len(s) >= 1
               /\ s[1] \notin DigitChars
               /\ s # <<"_">>

Idents == {s \in SeqsUpTo(Chars, MaxLen) : is_ident(s)}

\* ------------------------------------------------- heck::ToSnakeCase
lowercase(w) == [i \in 1..Len(w) |-> to_lowercase(w[i])]

\* s.split(|c| !c.is_alphanumeric()): the maximal runs between separators,
\* empty runs included.  acc[k] holds the words closed and the word pending
\* after k characters.
split(s) ==
    LET acc[k \in 0..Len(s)] ==
            IF k = 0 THEN [words |-> <<>>, word |-> <<>>]
            ELSE IF is_alphanumeric(s[k])
                 THEN [acc[k - 1] EXCEPT !.word = Append(@, s[k])]
                 ELSE [words |-> Append(acc[k - 1].words, acc[k - 1].word),
                       word |-> <<>>]
    IN  Append(acc[Len(s)].words, acc[Len(s)].word)

\* with_word preceded by boundary unless this is the first word written.
emit_word(st, w) ==
    [out |-> (IF st.first_word THEN st.out ELSE st.out \o <<"_">>) \o lowercase(w),
     first_word |-> FALSE]

\* The scan of one word.  scan[i] is the loop state after the character at
\* i: init the start of the pending segment, mode the case of the previous
\* cased character of that segment, st what has been written.
transform_word(word, st0) ==
    LET scan[i \in 0..Len(word)] ==
            IF i = 0 THEN [init |-> 1, mode |-> "Boundary", st |-> st0]
            ELSE LET prev == scan[i - 1]
                     c == word[i]
                 IN  IF i = Len(word)
                     THEN [prev EXCEPT
                              !.st = emit_word(@, SubSeq(word, prev.init, Len(word)))]
                     ELSE LET next == word[i + 1]
                              next_mode == IF is_lowercase(c) THEN "Lowercase"
                                           ELSE IF is_uppercase(c) THEN "Uppercase"
                                           ELSE prev.mode
                          IN  IF next_mode = "Lowercase" /\ is_uppercase(next)
                              THEN [init |-> i + 1, mode |-> "Boundary",
                                    st |-> emit_word(prev.st, SubSeq(word, prev.init, i))]
                              ELSE IF /\ prev.mode = "Uppercase"
                                      /\ is_uppercase(c)
                                      /\ is_lowercase(next)
                              THEN [init |-> i, mode |-> "Boundary",
                                    st |-> emit_word(prev.st,
                                                     SubSeq(word, prev.init, i - 1))]
                              ELSE [prev EXCEPT !.mode = next_mode]
    IN  scan[Len(word)].st

transform(s) ==
    LET words == split(s)
        done[k \in 0..Len(words)] ==
            IF k = 0 THEN [out |-> <<>>, first_word |-> TRUE]
            ELSE transform_word(words[k], done[k - 1])
    IN  done[Len(words)].out

to_snake_case(s) == transform(s)

\* ----------------------------------------------------- derived names
TraitPrefix == <<"_","_","S","a","l","s","a","A","d","d","V","i","e","w">>
MethodPrefix == <<"_","_","s","a","l","s","a","_","a","d","d","_","v","i","e","w","_">>
NameSuffix == <<"_","_">>

db_view_trait_name_snake(name) == TraitPrefix \o to_snake_case(name) \o NameSuffix

db_view_trait_name(name) == TraitPrefix \o name \o NameSuffix

db_view_method_name_bare(name) == to_snake_case(name)

db_view_method_name(name) == MethodPrefix \o to_snake_case(name) \o NameSuffix

\* ------------------------------------------------------ token streams
\* Option values: None is the empty sequence, Some(x) the one-element one.
None == <<>>
Some(x) == <<x>>

ArgTokens == {"x"}
ArgStreams == SeqsUpTo(ArgTokens, MaxArgs)

Visibilities == {"pub", "inherited"}
SuperNames == {<<"O">>, <<"D">>}
SuperLists == SeqsUpTo(SuperNames, MaxSupers)
Bodies == {<<>>, <<[name |-> <<"u">>]>>}

\* What an input token stream spells: a trait item, or some other item
\* (a struct) that syn::ItemTrait cannot parse.
TraitItems == [item : {"trait"}, vis : Visibilities, ident : Idents,
               supertraits : SuperLists, body : Bodies]
StructItems == [item : {"struct"}, vis : Visibilities, ident : Idents,
                supertraits : {<<>>}, body : Bodies]
InputStreams == TraitItems \cup StructItems

\* err.to_compile_error() of the two parse failures.
ArgumentError == [item |-> "compile_error", parse |-> "args as syn::parse::Nothing"]
SyntaxError == [item |-> "compile_error", parse |-> "input as syn::ItemTrait"]

\* ------------------------------------------------------------------ state
VARIABLES
    args,            \* args token stream of each invocation
    input,           \* input token stream of each invocation
    pc,              \* the statement each invocation is at
    hygiene,         \* Option: Hygiene::from(&input)
    parsed,          \* Option: the syn::ItemTrait parsed from input
    self_input,      \* Option: DbViewMacro.input
    DbViewTrait,     \* Option: DbViewMacro.DbViewTrait
    db_view_method,  \* Option: DbViewMacro.db_view_method
    l_view_impl,     \* Option: local view_impl of expand
    l_view_trait,    \* Option: local view_trait of expand
    output,          \* the returned token stream: a sequence of items
    stages           \* the statements executed so far, in order

\* The invocations under way.
Started == DOMAIN pc

vars == <<args, input, pc, hygiene, parsed, self_input, DbViewTrait,
          db_view_method, l_view_impl, l_view_trait, output, stages>>

\* The invocations `started`, each before its first statement.
Fresh(a, i, started) ==
    /\ args = [r \in started |-> a]
    /\ input = [r \in started |-> i]
    /\ pc = [r \in started |-> "parse_args"]
    /\ hygiene = [r \in started |-> None]
    /\ parsed = [r \in started |-> None]
    /\ self_input = [r \in started |-> None]
    /\ DbViewTrait = [r \in started |-> None]
    /\ db_view_method = [r \in started |-> None]
    /\ l_view_impl = [r \in started |-> None]
    /\ l_view_trait = [r \in started |-> None]
    /\ output = [r \in started |-> <<>>]
    /\ stages = [r \in started |-> <<>>]

\* One invocation on any (args, input).
Init == \E a \in ArgStreams, i \in InputStreams : Fresh(a, i, {1})

\* An invocation and a re-run of it on the identical (args, input), over the
\* inputs with shorter names and supertrait lists.
RerunInputs ==
    {i \in InputStreams : Len(i.ident) < MaxLen /\ Len(i.supertraits) < MaxSupers}

InitRerun == \E a \in ArgStreams, i \in RerunInputs : Fresh(a, i, Runs)

goto(r, label, stage) ==
    /\ pc' = [pc EXCEPT ![r] = label]
    /\ stages' = [stages EXCEPT ![r] = Append(@, stage)]

\* Hygiene::ident(text): an identifier determined by the context and the text.
hygiene_ident(h, text) == [hygiene |-> h, text |-> text]

\* ------------------------------------------------------------- db_view
\* syn::parse_macro_input!(args as syn::parse::Nothing)
parse_args_ignored(r) ==
    /\ pc[r] = "parse_args"
    /\ goto(r, "hygiene", "parse_args")
    /\ UNCHANGED <<args, input, hygiene, parsed, self_input, DbViewTrait,
                   db_view_method, l_view_impl, l_view_trait, output>>

parse_args_keeps_item(r) ==
    /\ pc[r] = "parse_args"
    /\ IF args[r] # <<>>
       THEN /\ output' = [output EXCEPT ![r] = <<ArgumentError, input[r]>>]
            /\ goto(r, "done", "parse_args")
       ELSE /\ goto(r, "hygiene", "parse_args")
            /\ UNCHANGED output
    /\ UNCHANGED <<args, input, hygiene, parsed, self_input, DbViewTrait,
                   db_view_method, l_view_impl, l_view_trait>>

parse_args(r) ==
    /\ pc[r] = "parse_args"
    /\ IF args[r] # <<>>
       THEN /\ output' = [output EXCEPT ![r] = <<ArgumentError>>]
            /\ goto(r, "done", "parse_args")
       ELSE /\ goto(r, "hygiene", "parse_args")
            /\ UNCHANGED output
    /\ UNCHANGED <<args, input, hygiene, parsed, self_input, DbViewTrait,
                   db_view_method, l_view_impl, l_view_trait>>

\* Hygiene::from(&input): the first argument of DbViewMacro::new, evaluated
\* on the raw token stream before the second argument parses it.
hygiene_from(r) ==
    /\ pc[r] = "hygiene"
    /\ hygiene' = [hygiene EXCEPT ![r] = Some([from |-> input[r]])]
    /\ goto(r, "parse_input", "hygiene")
    /\ UNCHANGED <<args, input, parsed, self_input, DbViewTrait,
                   db_view_method, l_view_impl, l_view_trait, output>>

\* syn::parse_macro_input!(input as syn::ItemTrait)
parse_input_any_item(r) ==
    /\ pc[r] = "parse_input"
    /\ parsed' = [parsed EXCEPT ![r] = Some([input[r] EXCEPT !.item = "trait"])]
    /\ goto(r, "new", "parse_input")
    /\ UNCHANGED <<args, input, hygiene, self_input, DbViewTrait,
                   db_view_method, l_view_impl, l_view_trait, output>>

parse_input(r) ==
    /\ pc[r] = "parse_input"
    /\ IF input[r].item # "trait"
       THEN /\ output' = [output EXCEPT ![r] = <<SyntaxError>>]
            /\ goto(r, "done", "parse_input")
            /\ UNCHANGED parsed
       ELSE /\ parsed' = [parsed EXCEPT ![r] = Some(input[r])]
            /\ goto(r, "new", "parse_input")
            /\ UNCHANGED output
    /\ UNCHANGED <<args, input, hygiene, self_input, DbViewTrait,
                   db_view_method, l_view_impl, l_view_trait>>

\* ------------------------------------------------------- DbViewMacro
\* A name generator that numbers the invocations which derived names so far.
new_counted(r) ==
    /\ pc[r] = "new"
    /\ LET n == Cardinality({q \in Started : DbViewTrait[q] # None})
           tag == [k \in 1..n |-> "_"]
       IN  /\ DbViewTrait' = [DbViewTrait EXCEPT
                  ![r] = Some(db_view_trait_name(parsed[r][1].ident) \o tag)]
           /\ db_view_method' = [db_view_method EXCEPT
                  ![r] = Some(db_view_method_name(parsed[r][1].ident) \o tag)]
    /\ self_input' = [self_input EXCEPT ![r] = parsed[r]]
    /\ goto(r, "add_supertrait", "new")
    /\ UNCHANGED <<args, input, hygiene, parsed, l_view_impl, l_view_trait, output>>

new(r) ==
    /\ pc[r] = "new"
    /\ DbViewTrait' = [DbViewTrait EXCEPT
           ![r] = Some(db_view_trait_name(parsed[r][1].ident))]
    /\ db_view_method' = [db_view_method EXCEPT
           ![r] = Some(db_view_method_name(parsed[r][1].ident))]
    /\ self_input' = [self_input EXCEPT ![r] = parsed[r]]
    /\ goto(r, "add_supertrait", "new")
    /\ UNCHANGED <<args, input, hygiene, parsed, l_view_impl, l_view_trait, output>>

\* self.input.supertraits.push(parse_quote! { #DbViewTrait })
push_front(supertraits, bound) == <<bound>> \o supertraits

push(supertraits, bound) == Append(supertraits, bound)

add_supertrait_twice(r) ==
    /\ pc[r] = "add_supertrait"
    /\ self_input' = [self_input EXCEPT
           ![r] = Some([@[1] EXCEPT !.supertraits =
                           push(push(@, DbViewTrait[r][1]), DbViewTrait[r][1])])]
    /\ goto(r, "view_impl", "add_supertrait")
    /\ UNCHANGED <<args, input, hygiene, parsed, DbViewTrait, db_view_method,
                   l_view_impl, l_view_trait, output>>

add_supertrait(r) ==
    /\ pc[r] = "add_supertrait"
    /\ self_input' = [self_input EXCEPT
           ![r] = Some([@[1] EXCEPT !.supertraits = push(@, DbViewTrait[r][1])])]
    /\ goto(r, "view_impl", "add_supertrait")
    /\ UNCHANGED <<args, input, hygiene, parsed, DbViewTrait, db_view_method,
                   l_view_impl, l_view_trait, output>>

\* The item view_impl builds from self.
view_impl(r) ==
    LET DB == hygiene_ident(hygiene[r][1], "DB")
        Database == hygiene_ident(hygiene[r][1], "Database")
        views == hygiene_ident(hygiene[r][1], "views")
        UserTrait == self_input[r][1].ident
    IN  [item |-> "impl",
         doc_hidden |-> TRUE,
         use_salsa_Database_as |-> Database,
         generics |-> <<[param |-> DB, bound |-> Database]>>,
         trait_ |-> DbViewTrait[r][1],
         self_ty |-> DB,
         methods |-> <<[name |-> db_view_method[r][1],
                        let_views |-> views,
                        add_dyn |-> UserTrait]>>]

expand_view_impl(r) ==
    /\ pc[r] = "view_impl"
    /\ l_view_impl' = [l_view_impl EXCEPT ![r] = Some(view_impl(r))]
    /\ goto(r, "view_trait", "view_impl")
    /\ UNCHANGED <<args, input, hygiene, parsed, self_input, DbViewTrait,
                   db_view_method, l_view_trait, output>>

\* The item view_trait builds from self.
view_trait_pub(r) ==
    [item |-> "trait",
     doc_hidden |-> TRUE,
     vis |-> "pub",
     ident |-> DbViewTrait[r][1],
     supertraits |-> <<>>,
     body |-> <<[name |-> db_view_method[r][1]]>>]

view_trait(r) ==
    [item |-> "trait",
     doc_hidden |-> TRUE,
     vis |-> self_input[r][1].vis,
     ident |-> DbViewTrait[r][1],
     supertraits |-> <<>>,
     body |-> <<[name |-> db_view_method[r][1]]>>]

expand_view_trait(r) ==
    /\ pc[r] = "view_trait"
    /\ l_view_trait' = [l_view_trait EXCEPT ![r] = Some(view_trait(r))]
    /\ goto(r, "emit", "view_trait")
    /\ UNCHANGED <<args, input, hygiene, parsed, self_input, DbViewTrait,
                   db_view_method, l_view_impl, output>>

\* quote! { #input #view_trait #view_impl }, returned through Ok(tokens).
quote_without_impl(r) == <<self_input[r][1], l_view_trait[r][1]>>

quote(r) == <<self_input[r][1], l_view_trait[r][1], l_view_impl[r][1]>>

expand_emit(r) ==
    /\ pc[r] = "emit"
    /\ output' = [output EXCEPT ![r] = quote(r)]
    /\ goto(r, "done", "emit")
    /\ UNCHANGED <<args, input, hygiene, parsed, self_input, DbViewTrait,
                   db_view_method, l_view_impl, l_view_trait>>

Next ==
    \E r \in Started :
        \/ parse_args(r)
        \/ hygiene_from(r)
        \/ parse_input(r)
        \/ new(r)
        \/ add_supertrait(r)
        \/ expand_view_impl(r)
        \/ expand_view_trait(r)
        \/ expand_emit(r)

Spec == Init /\ [][Next]_vars

SpecRerun == InitRerun /\ [][Next]_vars

\* ------------------------------------------------------------ outcomes
Done(r) == pc[r] = "done"

\* expand never fails: an invocation whose input parsed ends in Ok(tokens).
Succeeded(r) == Done(r) /\ parsed[r] # None

UserName(r) == input[r].ident

IsDiagnostic(out) == Len(out) = 1 /\ out[1].item = "compile_error"

\* The lower-cased text of a name with its separators removed.
fold(s) == lowercase(SelectSeq(s, is_alphanumeric))

\* The derived names of every identifier of the universe.
TraitNameOf == [M \in Idents |-> db_view_trait_name(M)]
MethodNameOf == [M \in Idents |-> db_view_method_name(M)]
FoldOf == [M \in Idents |-> fold(M)]

CodeOrder == <<"parse_args", "hygiene", "parse_input", "new", "add_supertrait",
               "view_impl", "view_trait", "emit">>

IsPrefix(s, t) == Len(s) <= Len(t) /\ s = SubSeq(t, 1, Len(s))

\* ---------------------------------------------------------------- claims

\* C1: the output of db_view is either exactly the three declarations
\* [mutated interface declaration, hidden interface, blanket implementation]
\* in that order, or exactly one diagnostic; never a mixture, never one or
\* two declarations.  Nothing is output before the invocation returns.
C1_AllOrDiagnostic ==
    \A r \in Started :
        IF ~Done(r) THEN output[r] = <<>>
        ELSE LET out == output[r]
             IN  \/ IsDiagnostic(out)
                 \/ /\ Len(out) = 3
                    /\ out[1].item = "trait" /\ out[1].ident = UserName(r)
                    /\ out[2].item = "trait"
                    /\ out[2].ident = db_view_trait_name(UserName(r))
                    /\ out[3].item = "impl"

C1_Witness ==
    /\ Succeeded(1) /\ Len(output[1]) = 3
    /\ output[1][3].item = "impl"

\* C2: in a successful expansion the augmented declaration's supertraits are
\* the original supertraits, in their order, followed by exactly one new
\* entry, db_view_trait_name(N).
C2_SupertraitAppended ==
    \A r \in Started :
        Succeeded(r) =>
            output[r][1].supertraits =
                input[r].supertraits \o <<db_view_trait_name(UserName(r))>>

C2_Witness ==
    /\ Succeeded(1)
    /\ Len(input[1].supertraits) = 2
    /\ input[1].supertraits[1] # input[1].supertraits[2]
    /\ Len(output[1][1].supertraits) = 3

\* C3: with non-empty argument text, whatever the input, the invocation ends
\* right after the argument check with exactly one ArgumentError diagnostic
\* and no declaration in the output.
C3_ArgumentError ==
    \A r \in Started :
        args[r] # <<>> =>
            /\ pc[r] \in {"parse_args", "done"}
            /\ Done(r) => output[r] = <<ArgumentError>>
            /\ ~Done(r) => output[r] = <<>>

C3_Witness ==
    /\ args[1] # <<>> /\ input[1].item = "trait"
    /\ Done(1) /\ output[1] = <<ArgumentError>>

\* C4: with empty argument text and an input that is not a trait item, the
\* output is exactly one SyntaxError diagnostic, and name derivation,
\* mutation and artifact construction are never performed.
C4_SyntaxError ==
    \A r \in Started :
        (args[r] = <<>> /\ input[r].item # "trait") =>
            /\ Done(r) => output[r] = <<SyntaxError>>
            /\ ~Done(r) => output[r] = <<>>
            /\ DbViewTrait[r] = None /\ db_view_method[r] = None
            /\ self_input[r] = None
            /\ l_view_impl[r] = None /\ l_view_trait[r] = None
            /\ \A k \in 1..Len(stages[r]) :
                   stages[r][k] \in {"parse_args", "hygiene", "parse_input"}

C4_Witness ==
    /\ args[1] = <<>> /\ input[1].item = "struct"
    /\ Done(1) /\ output[1] = <<SyntaxError>>

\* C5 as stated: for two different user names N and M, each derived name of
\* N differs from N and from each derived name of M, the method names
\* included even when N and M differ only in case or separators.
C5_Original ==
    \A r \in Started :
        DbViewTrait[r] # None =>
            LET N == UserName(r)
                T == DbViewTrait[r][1]
                F == db_view_method[r][1]
            IN  /\ T # N /\ F # N
                /\ \A M \in Idents \ {N} :
                       /\ T # TraitNameOf[M] /\ T # MethodNameOf[M]
                       /\ F # TraitNameOf[M] /\ F # MethodNameOf[M]

\* C5 amended: as above, except that the hidden method names of N and M are
\* only guaranteed to differ when N and M differ in more than letter case
\* and separators (their lower-cased, separator-free texts differ).
C5_Amended ==
    \A r \in Started :
        DbViewTrait[r] # None =>
            LET N == UserName(r)
                T == DbViewTrait[r][1]
                F == db_view_method[r][1]
            IN  /\ T # N /\ F # N
                /\ \A M \in Idents \ {N} :
                       /\ T # TraitNameOf[M] /\ T # MethodNameOf[M]
                       /\ F # TraitNameOf[M]
                       /\ FoldOf[M] # FoldOf[N] => F # MethodNameOf[M]

C5_Witness ==
    /\ DbViewTrait[1] # None
    /\ \E M \in Idents : M # UserName(1) /\ fold(M) # fold(UserName(1))
    /\ \E M \in Idents : /\ M # UserName(1)
                         /\ fold(M) = fold(UserName(1))
                         /\ db_view_method[1][1] = MethodNameOf[M]

\* C6: the hidden interface name and the hidden method name derived from N
\* both differ from N and differ from each other.
C6_NonCollision ==
    \A r \in Started :
        DbViewTrait[r] # None =>
            /\ DbViewTrait[r][1] # self_input[r][1].ident
            /\ db_view_method[r][1] # self_input[r][1].ident
            /\ DbViewTrait[r][1] # db_view_method[r][1]

C6_Witness ==
    /\ DbViewTrait[1] # None /\ db_view_method[1] # None
    /\ to_snake_case(UserName(1)) = UserName(1)

\* C7: in a successful expansion the hidden interface is named
\* db_view_trait_name(N), the identifier appended to the supertraits and
\* implemented by the blanket implementation; it has the visibility of the
\* input; it declares exactly one method, named db_view_method_name(N), the
\* name of the single method the blanket implementation defines.
C7_HiddenInterfaceShape ==
    \A r \in Started :
        Succeeded(r) =>
            LET decl == output[r][1]
                hidden == output[r][2]
                blanket == output[r][3]
            IN  /\ hidden.ident = db_view_trait_name(UserName(r))
                /\ hidden.ident = decl.supertraits[Len(decl.supertraits)]
                /\ hidden.ident = blanket.trait_
                /\ hidden.vis = input[r].vis
                /\ Len(hidden.body) = 1
                /\ hidden.body[1].name = db_view_method_name(UserName(r))
                /\ Len(blanket.methods) = 1
                /\ blanket.methods[1].name = hidden.body[1].name

C7_Witness ==
    /\ Succeeded(1) /\ input[1].vis = "inherited"
    /\ output[1][2].vis = "inherited"

C9_Original ==
    \A r \in Started :
        /\ (\E k \in 1..Len(stages[r]) : stages[r][k] = "parse_args") =>
               parsed[r] # None
        /\ (Done(r) /\ input[r].item # "trait" /\ args[r] # <<>>) =>
               output[r] = <<SyntaxError>>
        /\ hygiene[r] # None => parsed[r] # None

\* C9 amended: the statements run in the strict order argument check,
\* hygiene construction (from the raw input), input parse, name derivation,
\* add_supertrait, view_impl, view_trait, emit; the input is parsed only
\* after the argument check has passed, so an invalid input with non-empty
\* arguments ends in ArgumentError; the hygiene context exists before the
\* input is parsed and names are derived only after it is.
C9_Amended ==
    \A r \in Started :
        /\ IsPrefix(stages[r], CodeOrder)
        /\ (\E k \in 1..Len(stages[r]) : stages[r][k] = "parse_input") =>
               args[r] = <<>>
        /\ (Done(r) /\ input[r].item # "trait" /\ args[r] # <<>>) =>
               output[r] = <<ArgumentError>>
        /\ parsed[r] # None => hygiene[r] # None
        /\ DbViewTrait[r] # None => parsed[r] # None

C9_Witness ==
    /\ Done(1) /\ input[1].item # "trait" /\ args[1] # <<>>
    /\ stages[1] = <<"parse_args">>

\* C10: the declaration is mutated exactly once, by one append to its
\* supertraits: until add_supertrait it is the parsed input, from then on
\* (through view_impl, view_trait and emit) it has the input's name,
\* visibility and body and one more supertrait, and it is what is emitted.
C10_MutatedOnce ==
    \A r \in Started :
        self_input[r] # None =>
            LET decl == self_input[r][1]
            IN  IF pc[r] = "add_supertrait" THEN decl = input[r]
                ELSE /\ decl.item = input[r].item
                     /\ decl.ident = input[r].ident
                     /\ decl.vis = input[r].vis
                     /\ decl.body = input[r].body
                     /\ Len(decl.supertraits) = Len(input[r].supertraits) + 1
                     /\ Succeeded(r) => output[r][1] = decl

C10_Witness ==
    /\ Succeeded(1) /\ input[1].body # <<>>
    /\ output[1][1].body = input[1].body
    /\ stages[1] = CodeOrder

====
